---- MODULE Spec2Model ----
(***************************************************************************)
(* Model of lambda_function.py: the scheduled function that aggregates AWS *)
(* cost data and optimisation recommendations, enriches the two summary    *)
(* records through a text-generation call and posts the events to New      *)
(* Relic with three delivery attempts.                                     *)
(*                                                                         *)
(* The program is single threaded; pc is the position of the one thread.   *)
(* Every answer of an external collaborator (Cost Explorer, Cost           *)
(* Optimization Hub, Bedrock, the HTTPS endpoint) is an input of the step  *)
(* that performs the call.  Locals of a workflow are reset when it         *)
(* returns or raises.                                                      *)
(***************************************************************************)
EXTENDS Integers, Sequences, FiniteSets, TLC

(***************************************************************************)
(* Bounds of the model.                                                    *)
(***************************************************************************)
MaxPages == 2      \* pages a paginated source answers with, at most
MaxGroups == 1     \* cost groups the cost source holds, over all pages
MaxItems == 2      \* recommendations the hub holds, over all pages
MaxTextLen == 3    \* tokens of a generated text (all texts up to here)

(***************************************************************************)
(* Program constants.                                                      *)
(***************************************************************************)
MaxAttempts == 3          \* for attempt in range(3)
JPY_EXCHANGE_RATE == 150  \* default of the environment variable

(***************************************************************************)
(* Python values.                                                          *)
(***************************************************************************)
\* os.environ.get(name): None when the variable is unset, else its string.
None == "<None>"
EnvValues == {None, "", "key"}

PyNotNoneOnly(v) == v = None

\* `not v` for v a string or None.
PyNot(v) == v = None \/ v = ""

RECURSIVE SeqsUpTo(_, _)
SeqsUpTo(S, n) ==
    IF n = 0 THEN {<<>>}
    ELSE LET shorter == SeqsUpTo(S, n - 1)
         IN  shorter \cup {Append(s, x) : s \in {t \in shorter : Len(t) = n - 1}, x \in S}

(***************************************************************************)
(* datetime.date: <<year, month, day>>.                                    *)
(***************************************************************************)
NoDate == <<0, 0, 0>>

IsLeap(y) == (y % 4 = 0) /\ ((y % 100 # 0) \/ (y % 400 = 0))

\* calendar.monthrange(year, month)[1]
DaysInMonth(y, m) ==
    IF m = 2 THEN (IF IsLeap(y) THEN 29 ELSE 28)
    ELSE IF m \in {4, 6, 9, 11} THEN 30 ELSE 31

\* d.replace(day=n)
ReplaceDay(d, n) == <<d[1], d[2], n>>

\* d - timedelta(days=1)
MinusOneDay(d) ==
    IF d[3] > 1 THEN <<d[1], d[2], d[3] - 1>>
    ELSE IF d[2] > 1 THEN <<d[1], d[2] - 1, DaysInMonth(d[1], d[2] - 1)>>
    ELSE <<d[1] - 1, 12, 31>>

Years == {2000, 2023, 2024, 2100}
AllDates == {<<y, m, d>> : y \in Years, m \in 1..12, d \in 1..31} \cap
            {x \in (Years \X (1..12) \X (1..31)) : x[3] <= DaysInMonth(x[1], x[2])}
\* the clock readings of the runs that go through the whole handler
SampleDates == {<<2024, 1, 1>>, <<2024, 3, 15>>}

\* lines 62-72: the window asked of get_cost_and_usage, [Start, End)
IsFirstOfMonth(t) == t[3] = 1

EndDateForApi(t) == IF IsFirstOfMonth(t) THEN ReplaceDay(t, 1) ELSE t

StartDateThisMonth(t) == ReplaceDay(t, 1)

StartDate(t) ==
    IF IsFirstOfMonth(t)
    THEN LET last_month_end == MinusOneDay(EndDateForApi(t))
         IN  ReplaceDay(last_month_end, 1)
    ELSE ReplaceDay(t, 1)

(***************************************************************************)
(* Text of the generation model: a sequence of tokens.  "x" is the member  *)
(* "x":1 of a JSON object, "p" any run of prose without braces.            *)
(***************************************************************************)
Tokens == {"{", "}", "x", "p"}
Texts == SeqsUpTo(Tokens, MaxTextLen) \cup {<<"p", "{", "x", "}", "p">>}

\* str.find / str.rfind: 0-based index, -1 when absent
PyFind(s, c) ==
    IF \E i \in 1..Len(s) : s[i] = c
    THEN (CHOOSE i \in 1..Len(s) : s[i] = c /\ \A j \in 1..(i - 1) : s[j] # c) - 1
    ELSE -1

PyRFind(s, c) ==
    IF \E i \in 1..Len(s) : s[i] = c
    THEN (CHOOSE i \in 1..Len(s) : s[i] = c /\ \A j \in (i + 1)..Len(s) : s[j] # c) - 1
    ELSE -1

\* s[a:b] of Python: a negative index counts from the end, both are clamped
PyIndex(s, a) ==
    IF a < 0 THEN (IF Len(s) + a < 0 THEN 0 ELSE Len(s) + a)
    ELSE IF a > Len(s) THEN Len(s) ELSE a
PySlice(s, a, b) == SubSeq(s, PyIndex(s, a) + 1, PyIndex(s, b))

JsonSliceFirstBrace(raw_text) ==
    PySlice(raw_text, PyFind(raw_text, "{"), PyFind(raw_text, "}") + 1)

\* raw_text[raw_text.find("{"):raw_text.rfind("}") + 1]
JsonSlice(raw_text) == PySlice(raw_text, PyFind(raw_text, "{"), PyRFind(raw_text, "}") + 1)

\* json.loads on a token sequence: the object, or a JSONDecodeError
NoAnalysis == [k \in {} |-> 0]
JsonLoads(s) ==
    IF s = <<"{", "}">> THEN [ok |-> TRUE, obj |-> NoAnalysis]
    ELSE IF s = <<"{", "x", "}">> THEN [ok |-> TRUE, obj |-> [k \in {"x"} |-> 1]]
    ELSE [ok |-> FALSE, obj |-> NoAnalysis]

(***************************************************************************)
(* What the collaborators can answer.                                      *)
(***************************************************************************)
\* one group of get_cost_and_usage (grouped by SERVICE, then REGION)
GroupSet ==
    { [Keys |-> <<"EC2", "us-east-1">>, Amount |-> 10, Unit |-> "USD"] }

\* a numeric field of a recommendation as the hub delivers it: a number, or
\* something float() raises ValueError/TypeError on
Num(n) == <<"num", n>>
Unparsable == <<"str", 0>>
RecSet ==
    { [estimatedMonthlySavings |-> Num(5), estimatedSavingsPercentage |-> Num(20),
       currentResourceType |-> "Ec2Instance"],
      [estimatedMonthlySavings |-> Num(2), estimatedSavingsPercentage |-> Num(10),
       currentResourceType |-> "EbsVolume"],
      [estimatedMonthlySavings |-> Unparsable, estimatedSavingsPercentage |-> Num(10),
       currentResourceType |-> "EbsVolume"],
      [estimatedMonthlySavings |-> Num(5), estimatedSavingsPercentage |-> Unparsable,
       currentResourceType |-> "Ec2Instance"] }

\* float(v)
PyFloat(v) == [ok |-> v[1] = "num", val |-> v[2]]

\* get_cost_forecast: a response, DataUnavailableException, or another error
ForecastOutcomes ==
    { [kind |-> "ok", data |-> <<>>],
      [kind |-> "ok", data |-> <<[MeanValue |-> 42]>>],
      [kind |-> "DataUnavailableException", data |-> <<>>],
      [kind |-> "error", data |-> <<>>] }

\* invoke_model: it raises, or answers with a body that is not JSON, has no
\* 'content', has an empty 'content', has no 'text', or has a text
NoResponse == [kind |-> "none", text |-> <<>>]
BedrockOutcomes ==
    { [kind |-> k, text |-> <<>>] :
        k \in {"invoke_error", "body_not_json", "no_content", "empty_content", "no_text"} }
    \cup { [kind |-> "text", text |-> t] : t \in Texts }

\* the answer of one POST attempt: a status, or a transport error raised by
\* the constructor, by request() or by getresponse()
StatusCodes == {199, 200, 299, 300}

(***************************************************************************)
(* The enrichment of a summary record (lines 201-211 and 305-315).         *)
(***************************************************************************)
\* lines 203-205: the raw text of the response, unless the call, the decoding
\* of the body or content[0] raises
RawText(outcome) ==
    CASE outcome.kind = "invoke_error"  -> [ok |-> FALSE, text |-> <<>>]
      [] outcome.kind = "body_not_json" -> [ok |-> FALSE, text |-> <<>>]
      [] outcome.kind = "empty_content" -> [ok |-> FALSE, text |-> <<>>]
      [] outcome.kind = "no_content"    -> [ok |-> TRUE, text |-> <<"{", "}">>]
      [] outcome.kind = "no_text"       -> [ok |-> TRUE, text |-> <<"{", "}">>]
      [] outcome.kind = "text"          -> [ok |-> TRUE, text |-> outcome.text]

\* str(e) of the exception caught at lines 209 and 313: some text
ErrorText == "str(e)"

\* dict.update: the keys of new replace or extend those of old
DictUpdate(old, new) ==
    [k \in (DOMAIN old) \cup (DOMAIN new) |-> IF k \in DOMAIN new THEN new[k] ELSE old[k]]

\* the try/except around invoke_model: the summary with its analysis.* fields
Enrich(summary, outcome) ==
    LET raw == RawText(outcome)
        analysis_result == JsonLoads(JsonSlice(raw.text))
    IN  IF raw.ok /\ analysis_result.ok
        THEN [summary EXCEPT !.analysis = DictUpdate(@, analysis_result.obj)]
        ELSE [summary EXCEPT !.analysis = DictUpdate(@, [k \in {"error"} |-> ErrorText])]

(***************************************************************************)
(* run_cost_explorer_workflow: the records built from the groups.          *)
(***************************************************************************)
RECURSIVE SumAmounts(_)
SumAmounts(groups) ==
    IF groups = <<>> THEN 0 ELSE Head(groups).Amount + SumAmounts(Tail(groups))

\* lines 118-136, with GROUP_BY_DIMENSION_KEY = 'SERVICE' and no tag key
CostDetail(group, period_start, period_end) ==
    [eventType |-> "AwsCostReport", recordType |-> "detail",
     period_start |-> period_start, period_end |-> period_end,
     cost_unblended |-> group.Amount, cost_currency |-> group.Unit,
     aws_service |-> group.Keys[1], aws_region |-> group.Keys[2]]

CostDetails(groups, period_start, period_end) ==
    [i \in 1..Len(groups) |-> CostDetail(groups[i], period_start, period_end)]

\* lines 138-144
CostSummary(groups, forecast, period_start, period_end) ==
    [eventType |-> "AwsCostReport", recordType |-> "summary",
     period_start |-> period_start, period_end |-> period_end,
     cost_totalUnblended |-> SumAmounts(groups),
     cost_monthlyForecast |-> IF forecast # <<>> THEN forecast[1].MeanValue ELSE 0,
     analysis |-> NoAnalysis]

(***************************************************************************)
(* run_recommendation_workflow: the loop over the records (lines 237-264). *)
(***************************************************************************)
RecDetail(rec, savings, percentage) ==
    [eventType |-> "AwsOptimizationReport", recordType |-> "detail",
     aws_currentResourceType |-> rec.currentResourceType,
     cost_estimatedMonthlySavings |-> savings,
     cost_estimatedSavingsPercentage |-> percentage]

CountUp(by_type, t) ==
    [k \in (DOMAIN by_type) \cup {t} |-> (IF k \in DOMAIN by_type THEN by_type[k] ELSE 0)
                                         + (IF k = t THEN 1 ELSE 0)]

\* one pass of the loop body: float() of the savings, the two tallies, then
\* float() of the percentage while the detail record is built
ProcessRec(acc, rec) ==
    LET savings == PyFloat(rec.estimatedMonthlySavings)
        percentage == PyFloat(rec.estimatedSavingsPercentage)
    IN  IF ~savings.ok THEN acc
        ELSE LET tallied == [acc EXCEPT !.total_savings = @ + savings.val,
                                        !.by_type = CountUp(@, rec.currentResourceType)]
             IN  IF ~percentage.ok THEN tallied
                 ELSE [tallied EXCEPT !.events =
                          Append(@, RecDetail(rec, savings.val, percentage.val))]

RECURSIVE ProcessRecs(_, _)
ProcessRecs(acc, recs) ==
    IF recs = <<>> THEN acc ELSE ProcessRecs(ProcessRec(acc, Head(recs)), Tail(recs))

EmptyTally == [total_savings |-> 0, by_type |-> NoAnalysis, events |-> <<>>]

\* lines 265-273
RecSummary(recs, tally) ==
    [eventType |-> "AwsOptimizationReport", recordType |-> "summary",
     recommendation_totalCount |-> Len(recs),
     cost_totalEstimatedSavings |-> tally.total_savings,
     cost_totalEstimatedSavingsJpy |-> tally.total_savings * JPY_EXCHANGE_RATE,
     recommendation_countByType |-> tally.by_type,
     analysis |-> NoAnalysis]

(***************************************************************************)
(* State.                                                                  *)
(***************************************************************************)
VARIABLES
    today,               \* datetime.utcnow().date() of the invocation
    licenseKey,          \* NEW_RELIC_LICENSE_KEY
    accountId,           \* NEW_RELIC_ACCOUNT_ID
    pc,                  \* position of the thread
    \* locals of the running workflow
    start_date, end_date_for_api, all_groups, forecast_data,
    all_recommendations, events, summary_event, response,
    pages,               \* pages read so far by the pagination loop that runs

    \* locals of lambda_handler
    cost_status, rec_status, cost_events, rec_events, all_events_to_send, result,
    \* send_to_new_relic
    attempt, connection, returning, send_status,
    \* the world outside and what was asked of it
    open_connections,    \* sockets that are open
    forecast_calls,      \* calls of get_cost_forecast
    invoke_calls,        \* the workflows that have called invoke_model
    send_calls,          \* calls of send_to_new_relic
    attempt_log,         \* what each POST attempt met, in order
    waits                \* baseline seconds of each time.sleep, in order

workflow_locals == <<start_date, end_date_for_api, all_groups, forecast_data,
                     all_recommendations, pages, events, summary_event, response>>
handler_locals == <<cost_status, rec_status, cost_events, rec_events,
                    all_events_to_send, result>>
send_locals == <<attempt, connection, returning, send_status>>
world == <<open_connections, forecast_calls, invoke_calls, send_calls, attempt_log, waits>>
config == <<today, licenseKey, accountId>>
vars == <<config, pc, workflow_locals, handler_locals, send_locals, world>>

Unbound == -1
NoResult == [kind |-> "none", statusCode |-> 0, body |-> <<>>]

FreshLocals ==
    /\ start_date = NoDate
    /\ end_date_for_api = NoDate
    /\ all_groups = <<>>
    /\ forecast_data = <<>>
    /\ all_recommendations = <<>>
    /\ pages = 0
    /\ events = <<>>
    /\ summary_event = <<>>
    /\ response = NoResponse

InitRest ==
    /\ FreshLocals
    /\ cost_events = <<>>
    /\ rec_events = <<>>
    /\ all_events_to_send = <<>>
    /\ rec_status = "not_run"
    /\ result = NoResult
    /\ attempt = 0
    /\ connection = Unbound
    /\ returning = FALSE
    /\ send_status = "not_run"
    /\ open_connections = {}
    /\ forecast_calls = 0
    /\ invoke_calls = {}
    /\ send_calls = 0
    /\ attempt_log = <<>>
    /\ waits = <<>>

\* an invocation of lambda_handler
Init ==
    /\ today \in SampleDates
    /\ licenseKey \in EnvValues
    /\ accountId \in EnvValues
    /\ pc = "lambda_handler"
    /\ cost_status = "not_run"
    /\ InitRest

\* an invocation that has entered run_cost_explorer_workflow, on any date
InitWindow ==
    /\ today \in AllDates
    /\ licenseKey = "key"
    /\ accountId = "key"
    /\ pc = "cost_workflow"
    /\ cost_status = "running"
    /\ InitRest

\* the workflow's frame is dropped when it returns or raises
DropLocals ==
    /\ start_date' = NoDate
    /\ end_date_for_api' = NoDate
    /\ all_groups' = <<>>
    /\ forecast_data' = <<>>
    /\ all_recommendations' = <<>>
    /\ pages' = 0
    /\ events' = <<>>
    /\ summary_event' = <<>>
    /\ response' = NoResponse

(***************************************************************************)
(* lambda_handler, lines 349-353.                                          *)
(***************************************************************************)
HandlerStart ==
    /\ pc = "lambda_handler"
    /\ IF PyNot(licenseKey) \/ PyNot(accountId)
       THEN /\ result' = [kind |-> "response", statusCode |-> 500,
                          body |-> <<"Missing New Relic configuration.">>]
            /\ pc' = "done"
            /\ UNCHANGED cost_status
       ELSE /\ cost_status' = "running"
            /\ pc' = "cost_workflow"
            /\ UNCHANGED result
    /\ UNCHANGED <<config, workflow_locals, rec_status, cost_events, rec_events,
                   all_events_to_send, send_locals, world>>

(***************************************************************************)
(* run_cost_explorer_workflow and the try/except of lines 355-359.         *)
(***************************************************************************)
CostRaisedAbort ==
    /\ cost_status' = "raised"
    /\ pc' = "send_check"
    /\ DropLocals
    /\ UNCHANGED <<rec_status, cost_events, rec_events, all_events_to_send, result>>

\* the workflow raises: caught at line 358, the handler goes on to line 360
CostRaised ==
    /\ cost_status' = "raised"
    /\ rec_status' = "running"
    /\ pc' = "rec_page"
    /\ DropLocals
    /\ UNCHANGED <<cost_events, rec_events, all_events_to_send, result>>

\* the workflow returns evs: line 357 extends the list, then line 360
CostReturned(evs) ==
    /\ cost_status' = "returned"
    /\ cost_events' = evs
    /\ all_events_to_send' = all_events_to_send \o evs
    /\ rec_status' = "running"
    /\ pc' = "rec_page"
    /\ DropLocals
    /\ UNCHANGED <<rec_events, result>>

\* lines 61-77
CostBegin ==
    /\ pc = "cost_workflow"
    /\ start_date' = StartDate(today)
    /\ end_date_for_api' = EndDateForApi(today)
    /\ pc' = "cost_page"
    /\ UNCHANGED <<config, all_groups, forecast_data, all_recommendations, pages,
                   events, summary_event, response, handler_locals, send_locals, world>>

\* what one call of get_cost_and_usage answers while `fetched` pages and
\* `held` groups have been read
CostPageOutcomes(fetched, held) ==
    { [kind |-> "raise", ResultsByTime |-> <<>>, NextPageToken |-> FALSE] }
    \cup
    { [kind |-> "page", ResultsByTime |-> r, NextPageToken |-> n] :
        r \in {<<>>} \cup { <<[Groups |-> g]>> : g \in SeqsUpTo(GroupSet, MaxGroups - held) },
        n \in {b \in BOOLEAN : b => fetched + 1 < MaxPages} }

\* lines 78-90: one turn of the pagination loop
CostPage ==
    /\ pc = "cost_page"
    /\ \E o \in CostPageOutcomes(pages, Len(all_groups)) :
         IF o.kind = "raise"
         THEN CostRaised
         ELSE /\ all_groups' = IF o.ResultsByTime # <<>>
                               THEN all_groups \o o.ResultsByTime[1].Groups
                               ELSE all_groups
              /\ pages' = IF o.NextPageToken THEN pages + 1 ELSE 0
              /\ pc' = IF o.NextPageToken THEN "cost_page" ELSE "cost_forecast"
              /\ UNCHANGED <<start_date, end_date_for_api, forecast_data,
                             all_recommendations, events, summary_event, response,
                             handler_locals>>
    /\ UNCHANGED <<config, send_locals, world>>

\* lines 95-108: the forecast of the running month, not asked for on the 1st
CostForecast ==
    /\ pc = "cost_forecast"
    /\ IF ~IsFirstOfMonth(today)
       THEN /\ forecast_calls' = forecast_calls + 1
            /\ \E f \in ForecastOutcomes :
                 IF f.kind = "error"
                 THEN CostRaised
                 ELSE /\ forecast_data' = f.data
                      /\ pc' = "cost_build"
                      /\ UNCHANGED <<start_date, end_date_for_api, all_groups,
                                     all_recommendations, pages, events, summary_event,
                                     response, handler_locals>>
       ELSE /\ forecast_data' = <<>>
            /\ pc' = "cost_build"
            /\ UNCHANGED <<forecast_calls, start_date, end_date_for_api, all_groups,
                           all_recommendations, pages, events, summary_event,
                           response, handler_locals>>
    /\ UNCHANGED <<config, send_locals, open_connections, invoke_calls, send_calls,
                   attempt_log, waits>>

NothingToReportNoGroups(groups, forecast) == groups = <<>>

\* line 110
NothingToReport(groups, forecast) == groups = <<>> /\ forecast = <<>>

\* lines 110-144: nothing to report, or the detail records and the summary.
\* cost_data['ResultsByTime'] is [] when no group was read, so line 114
\* indexes an empty list once a forecast alone got past line 110.
CostBuild ==
    /\ pc = "cost_build"
    /\ IF NothingToReport(all_groups, forecast_data)
       THEN /\ pc' = "cost_exit"
            /\ UNCHANGED <<workflow_locals, handler_locals>>
       ELSE IF all_groups = <<>>
       THEN CostRaised
       ELSE /\ events' = CostDetails(all_groups, start_date, end_date_for_api)
            /\ summary_event' = <<CostSummary(all_groups, forecast_data,
                                              start_date, end_date_for_api)>>
            /\ pc' = "cost_bedrock"
            /\ UNCHANGED <<start_date, end_date_for_api, all_groups, forecast_data,
                           all_recommendations, pages, response, handler_locals>>
    /\ UNCHANGED <<config, send_locals, world>>

\* lines 201-213: the call of the model, the merge of its answer into the
\* summary, and the summary appended to the events
CostBedrock ==
    /\ pc = "cost_bedrock"
    /\ invoke_calls' = invoke_calls \cup {"cost"}
    /\ \E o \in BedrockOutcomes :
         /\ response' = o
         /\ summary_event' = <<Enrich(summary_event[1], o)>>
    /\ events' = Append(events, summary_event'[1])
    /\ pc' = "cost_exit"
    /\ UNCHANGED <<config, start_date, end_date_for_api, all_groups, forecast_data,
                   all_recommendations, pages, handler_locals, send_locals,
                   open_connections, forecast_calls, send_calls, attempt_log, waits>>

\* return events, at line 112 or line 215
CostReturn ==
    /\ pc = "cost_exit"
    /\ CostReturned(events)
    /\ UNCHANGED <<config, send_locals, world>>

(***************************************************************************)
(* run_recommendation_workflow and the try/except of lines 360-364.        *)
(***************************************************************************)
\* the workflow raises: caught at line 363, the handler goes on to line 365
RecRaised ==
    /\ rec_status' = "raised"
    /\ pc' = "send_check"
    /\ DropLocals
    /\ UNCHANGED <<cost_status, cost_events, rec_events, all_events_to_send, result>>

\* the workflow returns evs: line 362 extends the list, then line 365
RecReturned(evs) ==
    /\ rec_status' = "returned"
    /\ rec_events' = evs
    /\ all_events_to_send' = all_events_to_send \o evs
    /\ pc' = "send_check"
    /\ DropLocals
    /\ UNCHANGED <<cost_status, cost_events, result>>

RecPageOutcomes(fetched, held) ==
    { [kind |-> "raise", items |-> <<>>, nextToken |-> FALSE] }
    \cup
    { [kind |-> "page", items |-> i, nextToken |-> n] :
        i \in SeqsUpTo(RecSet, MaxItems - held),
        n \in {b \in BOOLEAN : b => fetched + 1 < MaxPages} }

\* lines 225-231: one turn of the pagination loop
RecPage ==
    /\ pc = "rec_page"
    /\ \E o \in RecPageOutcomes(pages, Len(all_recommendations)) :
         IF o.kind = "raise"
         THEN RecRaised
         ELSE /\ all_recommendations' = all_recommendations \o o.items
              /\ pages' = IF o.nextToken THEN pages + 1 ELSE 0
              /\ pc' = IF o.nextToken THEN "rec_page" ELSE "rec_build"
              /\ UNCHANGED <<start_date, end_date_for_api, all_groups, forecast_data,
                             events, summary_event, response, handler_locals>>
    /\ UNCHANGED <<config, send_locals, world>>

\* lines 233-273
RecBuild ==
    /\ pc = "rec_build"
    /\ IF all_recommendations = <<>>
       THEN /\ pc' = "rec_exit"
            /\ UNCHANGED workflow_locals
       ELSE LET tally == ProcessRecs(EmptyTally, all_recommendations)
            IN  /\ events' = tally.events
                /\ summary_event' = <<RecSummary(all_recommendations, tally)>>
                /\ pc' = "rec_bedrock"
                /\ UNCHANGED <<start_date, end_date_for_api, all_groups, forecast_data,
                               all_recommendations, pages, response>>
    /\ UNCHANGED <<config, handler_locals, send_locals, world>>

\* lines 305-316
RecBedrock ==
    /\ pc = "rec_bedrock"
    /\ invoke_calls' = invoke_calls \cup {"rec"}
    /\ \E o \in BedrockOutcomes :
         /\ response' = o
         /\ summary_event' = <<Enrich(summary_event[1], o)>>
    /\ events' = Append(events, summary_event'[1])
    /\ pc' = "rec_exit"
    /\ UNCHANGED <<config, start_date, end_date_for_api, all_groups, forecast_data,
                   all_recommendations, pages, handler_locals, send_locals,
                   open_connections, forecast_calls, send_calls, attempt_log, waits>>

\* return events, at line 236 or line 318
RecReturn ==
    /\ pc = "rec_exit"
    /\ RecReturned(events)
    /\ UNCHANGED <<config, send_locals, world>>

(***************************************************************************)
(* lambda_handler, lines 365-374, and send_to_new_relic.                   *)
(***************************************************************************)
SendCheckAlways ==
    /\ pc = "send_check"
    /\ send_calls' = send_calls + 1
    /\ send_status' = "running"
    /\ attempt' = 0
    /\ pc' = "send_connect"
    /\ UNCHANGED <<config, workflow_locals, handler_locals, connection, returning,
                   open_connections, forecast_calls, invoke_calls, attempt_log, waits>>

\* lines 365-367 and 371-372; line 324 never returns early here
SendCheck ==
    /\ pc = "send_check"
    /\ IF all_events_to_send # <<>>
       THEN /\ send_calls' = send_calls + 1
            /\ send_status' = "running"
            /\ attempt' = 0
            /\ pc' = "send_connect"
       ELSE /\ pc' = "return"
            /\ UNCHANGED <<send_calls, send_status, attempt>>
    /\ UNCHANGED <<config, workflow_locals, handler_locals, connection, returning,
                   open_connections, forecast_calls, invoke_calls, attempt_log, waits>>

IsSuccessOnly200(status) == status = 200

\* line 334
IsSuccess(status) == 200 <= status /\ status < 300

\* line 342, without the jitter
Backoff(n) == 1 * 2 ^ n

TransportError == [error |-> TRUE, status |-> 0]
Answered(s) == [error |-> FALSE, status |-> s]

\* line 331: the connection object; no socket is opened yet
SendConnect ==
    /\ pc = "send_connect"
    /\ \E constructed \in BOOLEAN :
         IF constructed
         THEN /\ connection' = attempt
              /\ pc' = "send_request"
              /\ UNCHANGED attempt_log
         ELSE /\ attempt_log' = Append(attempt_log, TransportError)
              /\ pc' = "send_finally"
              /\ UNCHANGED connection
    /\ returning' = FALSE
    /\ UNCHANGED <<config, workflow_locals, handler_locals, attempt, send_status,
                   open_connections, forecast_calls, invoke_calls, send_calls, waits>>

\* line 332: request() connects and sends; it may fail before the socket is
\* open or after
SendRequest ==
    /\ pc = "send_request"
    /\ \E o \in {"sent", "connect_failed", "send_failed"} :
         /\ open_connections' = IF o = "connect_failed" THEN open_connections
                                ELSE open_connections \cup {connection}
         /\ IF o = "sent"
            THEN pc' = "send_getresponse" /\ UNCHANGED attempt_log
            ELSE pc' = "send_finally" /\ attempt_log' = Append(attempt_log, TransportError)
    /\ UNCHANGED <<config, workflow_locals, handler_locals, send_locals,
                   forecast_calls, invoke_calls, send_calls, waits>>

\* lines 333-339
SendGetResponse ==
    /\ pc = "send_getresponse"
    /\ \E o \in {TransportError} \cup {Answered(s) : s \in StatusCodes} :
         /\ attempt_log' = Append(attempt_log, o)
         /\ returning' = (~o.error /\ IsSuccess(o.status))
    /\ pc' = "send_finally"
    /\ UNCHANGED <<config, workflow_locals, handler_locals, attempt, connection,
                   send_status, open_connections, forecast_calls, invoke_calls, send_calls, waits>>

SendFinallyLeak ==
    /\ pc = "send_finally"
    /\ open_connections' = IF connection # Unbound /\ returning
                           THEN open_connections \ {connection}
                           ELSE open_connections
    /\ IF returning
       THEN /\ send_status' = "returned"
            /\ pc' = "return"
       ELSE /\ pc' = "send_sleep"
            /\ UNCHANGED send_status
    /\ UNCHANGED <<config, workflow_locals, handler_locals, attempt, connection,
                   returning, forecast_calls, invoke_calls, send_calls, attempt_log, waits>>

\* lines 340-341, then the return of line 336 or on to line 342
SendFinally ==
    /\ pc = "send_finally"
    /\ open_connections' = IF connection # Unbound
                           THEN open_connections \ {connection}
                           ELSE open_connections
    /\ IF returning
       THEN /\ send_status' = "returned"
            /\ pc' = "return"
       ELSE /\ pc' = "send_sleep"
            /\ UNCHANGED send_status
    /\ UNCHANGED <<config, workflow_locals, handler_locals, attempt, connection,
                   returning, forecast_calls, invoke_calls, send_calls, attempt_log, waits>>

\* line 342: time.sleep(2 ** attempt + jitter), jitter in [0, 1); then the
\* next turn of range(3), or line 343 when there is none
SendSleep ==
    /\ pc = "send_sleep"
    /\ waits' = Append(waits, Backoff(attempt))
    /\ attempt' = attempt + 1
    /\ pc' = IF attempt + 1 < MaxAttempts THEN "send_connect" ELSE "send_raise"
    /\ UNCHANGED <<config, workflow_locals, handler_locals, connection, returning,
                   send_status, open_connections, forecast_calls, invoke_calls, send_calls,
                   attempt_log>>

SendRaiseSwallowed ==
    /\ pc = "send_raise"
    /\ send_status' = "raised"
    /\ pc' = "return"
    /\ UNCHANGED <<config, workflow_locals, handler_locals, attempt, connection,
                   returning, world>>

\* line 343, logged and raised again at lines 368-370
SendRaise ==
    /\ pc = "send_raise"
    /\ send_status' = "raised"
    /\ result' = [kind |-> "raised", statusCode |-> 0,
                  body |-> <<"Failed to send events to New Relic after all retries.">>]
    /\ pc' = "done"
    /\ UNCHANGED <<config, workflow_locals, cost_status, rec_status, cost_events,
                   rec_events, all_events_to_send, attempt, connection, returning, world>>

\* lines 373-374
HandlerReturn ==
    /\ pc = "return"
    /\ result' = [kind |-> "response", statusCode |-> 200,
                  body |-> <<"Processing complete. Total events generated: ",
                             Len(all_events_to_send)>>]
    /\ pc' = "done"
    /\ UNCHANGED <<config, workflow_locals, cost_status, rec_status, cost_events,
                   rec_events, all_events_to_send, send_locals, world>>

(***************************************************************************)
(* Specifications.                                                         *)
(***************************************************************************)
Next ==
    \/ HandlerStart
    \/ CostBegin
    \/ CostPage
    \/ CostForecast
    \/ CostBuild
    \/ CostBedrock
    \/ CostReturn
    \/ RecPage
    \/ RecBuild
    \/ RecBedrock
    \/ RecReturn
    \/ SendCheck
    \/ SendConnect
    \/ SendRequest
    \/ SendGetResponse
    \/ SendFinally
    \/ SendSleep
    \/ SendRaise
    \/ HandlerReturn

Spec == Init /\ [][Next]_vars

\* the cost workflow from its entry to the forecast, on every date
NextWindow ==
    \/ CostBegin
    \/ CostPage
    \/ CostForecast

SpecWindow == InitWindow /\ [][NextWindow]_vars

(***************************************************************************)
(* Vocabulary of the properties.                                           *)
(***************************************************************************)
ConfigPresent == licenseKey \notin {None, ""} /\ accountId \notin {None, ""}
Finished == {"returned", "raised"}
Combined == cost_events \o rec_events
Last(seq) == seq[Len(seq)]
Summaries(evs) == {i \in 1..Len(evs) : evs[i].recordType = "summary"}
Details(evs) == {i \in 1..Len(evs) : evs[i].recordType = "detail"}

\* an attempt failed: a transport error, or a status outside [200, 300)
Failed(o) == o.error \/ o.status < 200 \/ o.status >= 300
FailedAttempts == {i \in 1..Len(attempt_log) : Failed(attempt_log[i])}

InWorkflows ==
    {"cost_workflow", "cost_page", "cost_forecast", "cost_build", "cost_bedrock",
     "cost_exit", "rec_page", "rec_build", "rec_bedrock", "rec_exit"}

(***************************************************************************)
(* C1: when the licence key or the account id is unset or empty, the       *)
(* handler answers 500 and never enters a workflow, asks a source, calls   *)
(* the model or opens a connection.                                        *)
(***************************************************************************)
C1_ConfigFault ==
    ~ConfigPresent =>
        /\ pc \in {"lambda_handler", "done"}
        /\ cost_status = "not_run"
        /\ rec_status = "not_run"
        /\ send_calls = 0
        /\ send_status = "not_run"
        /\ forecast_calls = 0
        /\ invoke_calls = {}
        /\ attempt_log = <<>>
        /\ open_connections = {}
        /\ pc = "done" => result.kind = "response" /\ result.statusCode = 500

C1_Witness ==
    /\ pc = "done"
    /\ licenseKey = "key"
    /\ accountId = ""
    /\ result.statusCode = 500

(***************************************************************************)
(* C2: with the configuration present, the recommendation workflow is run  *)
(* whatever the cost workflow did, a workflow that raised adds no event,   *)
(* and the list handed on is the events the cost workflow returned         *)
(* followed by those the recommendation workflow returned.                 *)
(***************************************************************************)
C2_WorkflowIsolation ==
    /\ cost_status \in Finished => rec_status # "not_run"
    /\ cost_status = "raised" => cost_events = <<>>
    /\ rec_status = "raised" => rec_events = <<>>
    /\ cost_status \in {"not_run", "running"} => all_events_to_send = <<>>
    /\ cost_status \in Finished => all_events_to_send = Combined
    /\ pc \notin InWorkflows \cup {"lambda_handler"} /\ ConfigPresent =>
          cost_status \in Finished /\ rec_status \in Finished

C2_Witness ==
    /\ pc = "send_connect"
    /\ cost_status = "raised"
    /\ rec_status = "returned"
    /\ all_events_to_send = rec_events
    /\ Len(rec_events) = 3

(***************************************************************************)
(* C3: send_to_new_relic is called at most once, only after both workflows *)
(* have finished, and exactly when the combined list is not empty; with an *)
(* empty list nothing is posted and the handler answers 200 with 0 events. *)
(***************************************************************************)
C3_SingleSend ==
    /\ send_calls <= 1
    /\ send_calls = 1 =>
          cost_status \in Finished /\ rec_status \in Finished /\ Combined # <<>>
    /\ pc \notin InWorkflows \cup {"lambda_handler", "send_check"} /\ ConfigPresent =>
          (send_calls = 1 <=> Combined # <<>>)
    /\ send_calls = 0 => attempt_log = <<>> /\ open_connections = {} /\ waits = <<>>
    /\ pc = "done" /\ ConfigPresent /\ Combined = <<>> =>
          /\ result.kind = "response"
          /\ result.statusCode = 200
          /\ result.body[2] = 0

C3_Witness ==
    /\ pc = "done"
    /\ cost_status = "returned"
    /\ rec_status = "raised"
    /\ Combined = <<>>
    /\ send_calls = 0
    /\ result.statusCode = 200

(***************************************************************************)
(* C4: a delivery makes at most 3 attempts, none after an attempt that got *)
(* a status in [200, 300), returns after such an attempt and raises        *)
(* exactly when 3 attempts failed; the baseline wait after the failed      *)
(* attempt with index i is 2^i seconds: 1, 2, 4.                           *)
(***************************************************************************)
C4_Retry ==
    /\ Len(attempt_log) <= 3
    /\ \A i \in 1..(Len(attempt_log) - 1) : Failed(attempt_log[i])
    /\ send_status = "returned" =>
          attempt_log # <<>> /\ ~Failed(Last(attempt_log))
    /\ send_status = "raised" <=>
          (pc = "done" /\ Len(attempt_log) = 3 /\ Cardinality(FailedAttempts) = 3)
    /\ attempt_log # <<>> /\ ~Failed(Last(attempt_log)) =>
          pc \in {"send_finally", "return", "done"} /\ result.kind # "raised"
    /\ Len(waits) <= 3
    /\ \A i \in 1..Len(waits) : waits[i] = 2 ^ (i - 1)
    /\ \A i \in 1..(Len(waits) - 1) : waits[i] < waits[i + 1]
    /\ Len(waits) <= Cardinality(FailedAttempts)
    /\ pc \in {"send_connect", "send_request", "send_getresponse", "send_raise", "done"} =>
          Len(waits) = Cardinality(FailedAttempts)
    /\ send_status = "raised" => waits = <<1, 2, 4>>

C4_Witness ==
    /\ pc = "return"
    /\ send_status = "returned"
    /\ Len(attempt_log) = 2
    /\ attempt_log[1] = TransportError
    /\ attempt_log[2].status = 299
    /\ waits = <<1>>

(***************************************************************************)
(* C5: with the configuration present the handler answers 200 exactly when *)
(* the combined list is empty or an attempt succeeded, and the count it    *)
(* reports is the length of the combined list; when every attempt failed   *)
(* it answers nothing and the delivery error leaves the invocation.        *)
(***************************************************************************)
C5_Outcome ==
    pc = "done" /\ ConfigPresent =>
        /\ result.kind \in {"response", "raised"}
        /\ result.kind = "response" <=>
              (Combined = <<>> \/ \E i \in 1..Len(attempt_log) : ~Failed(attempt_log[i]))
        /\ result.kind = "response" =>
              result.statusCode = 200 /\ result.body[2] = Len(Combined)
        /\ result.kind = "raised" <=>
              (Len(attempt_log) = 3 /\ \A i \in 1..3 : Failed(attempt_log[i]))

C5_Witness ==
    /\ pc = "done"
    /\ cost_status = "raised"
    /\ rec_status = "returned"
    /\ rec_events # <<>>
    /\ "error" \in DOMAIN Last(rec_events).analysis
    /\ Len(attempt_log) = 3
    /\ result.statusCode = 200
    /\ result.body[2] = 1

(***************************************************************************)
(* C6: the connection of an attempt is closed before the backoff wait,     *)
(* before the next attempt and before send_to_new_relic returns or raises; *)
(* at most one connection is open at any time.                             *)
(***************************************************************************)
C6_ConnectionsClosed ==
    /\ Cardinality(open_connections) <= 1
    /\ open_connections # {} => open_connections = {connection} /\ connection = attempt
    /\ pc \notin {"send_getresponse", "send_finally"} => open_connections = {}
    /\ send_status \in Finished => open_connections = {}

C6_Witness ==
    /\ pc = "send_finally"
    /\ open_connections = {1}
    /\ Last(attempt_log) = TransportError

(***************************************************************************)
(* C7: a workflow returns a list with at most one summary record; the cost *)
(* workflow returns the empty list exactly when it read no group and no    *)
(* forecast, the recommendation workflow exactly when it read no record,   *)
(* and any other list returned holds exactly one summary.                  *)
(***************************************************************************)
C7_OneSummary ==
    /\ Cardinality(Summaries(cost_events)) <= 1
    /\ Cardinality(Summaries(rec_events)) <= 1
    /\ cost_events # <<>> => Cardinality(Summaries(cost_events)) = 1
    /\ rec_events # <<>> => Cardinality(Summaries(rec_events)) = 1
    /\ pc = "cost_exit" =>
          /\ events = <<>> <=> (all_groups = <<>> /\ forecast_data = <<>>)
          /\ events # <<>> => Cardinality(Summaries(events)) = 1
    /\ pc = "rec_exit" =>
          /\ events = <<>> <=> all_recommendations = <<>>
          /\ events # <<>> => Cardinality(Summaries(events)) = 1

C7_Witness ==
    /\ pc = "rec_exit"
    /\ Len(all_recommendations) = 2
    /\ Len(events) = 1
    /\ events[1].recordType = "summary"

(***************************************************************************)
(* C8: once invoke_model is called the workflow does not raise and returns *)
(* its events with the summary last.  When the call fails or the text      *)
(* holds no parsable JSON object the summary has analysis.error and no     *)
(* other analysis field; otherwise each key of the parsed object is an     *)
(* analysis field with its value.  Prose without an object gives only      *)
(* analysis.error; {"x":1} inside prose gives analysis.x = 1.              *)
(***************************************************************************)
CallFailed(r) == r.kind \in {"invoke_error", "body_not_json", "empty_content"}
\* lines 205 and 309: '{}' stands in for a missing 'content' or 'text'
TextOf(r) == IF r.kind = "text" THEN r.text ELSE <<"{", "}">>
Prose(t) == \A i \in 1..Len(t) : t[i] \notin {"{", "}"}

\* the text from its first "{" through its last "}", empty when there is none
Places(t, c) == {i \in 1..Len(t) : t[i] = c}
Least(S) == CHOOSE i \in S : \A j \in S : i <= j
Greatest(S) == CHOOSE i \in S : \A j \in S : j <= i
ObjectText(t) ==
    IF Places(t, "{") = {} \/ Places(t, "}") = {} THEN <<>>
    ELSE SubSeq(t, Least(Places(t, "{")), Greatest(Places(t, "}")))
\* the JSON objects over the tokens, and their members
IsObject(s) == s \in {<<"{", "}">>, <<"{", "x", "}">>}
Members(s) == IF s = <<"{", "x", "}">> THEN [k \in {"x"} |-> 1] ELSE [k \in {} |-> 0]

C8_EnrichmentNeverRaises ==
    /\ "cost" \in invoke_calls => cost_status # "raised"
    /\ "rec" \in invoke_calls => rec_status # "raised"
    /\ "cost" \in invoke_calls /\ cost_status = "returned" =>
          Last(cost_events).recordType = "summary"
    /\ "rec" \in invoke_calls /\ rec_status = "returned" =>
          Last(rec_events).recordType = "summary"
    /\ response.kind # "none" =>
          /\ pc \in {"cost_exit", "rec_exit"}
          /\ events # <<>>
          /\ Last(events).recordType = "summary"
          /\ Summaries(events) = {Len(events)}
          /\ LET analysis == Last(events).analysis
                 object == ObjectText(TextOf(response))
             IN  /\ CallFailed(response) \/ ~IsObject(object) => DOMAIN analysis = {"error"}
                 /\ ~CallFailed(response) /\ IsObject(object) =>
                       \A k \in DOMAIN Members(object) :
                           k \in DOMAIN analysis /\ analysis[k] = Members(object)[k]
                 /\ response.kind = "text" /\ Prose(response.text) =>
                       DOMAIN analysis = {"error"}
                 /\ response.kind = "text"
                    /\ response.text \in {<<"{", "x", "}">>, <<"p", "{", "x", "}", "p">>} =>
                       "x" \in DOMAIN analysis /\ analysis["x"] = 1

C8_Witness ==
    /\ pc = "rec_exit"
    /\ response.kind = "text"
    /\ response.text = <<"p", "{", "x", "}", "p">>
    /\ Last(events).analysis["x"] = 1

(***************************************************************************)
(* C9: on the 1st the window asked of the cost source covers exactly the   *)
(* days of the previous month, also across a year boundary; on any other   *)
(* day it covers the 1st of the month through yesterday.  The forecast is  *)
(* asked for exactly when the day is not the 1st.  The source takes Start  *)
(* as the first day and End as the day after the last.                     *)
(***************************************************************************)
DateLess(a, b) ==
    \/ a[1] < b[1]
    \/ a[1] = b[1] /\ a[2] < b[2]
    \/ a[1] = b[1] /\ a[2] = b[2] /\ a[3] < b[3]

PreviousMonth(t) == IF t[2] = 1 THEN <<t[1] - 1, 12>> ELSE <<t[1], t[2] - 1>>
FollowingMonth(t) == IF t[2] = 12 THEN <<t[1] + 1, 1>> ELSE <<t[1], t[2] + 1>>
DaysOfMonth(ym) == {<<ym[1], ym[2], d>> : d \in 1..DaysInMonth(ym[1], ym[2])}

\* the days of the month before, the month of and the month after t: an
\* unbroken stretch of days, so a window that starts and ends in it lies in it
Calendar(t) ==
    DaysOfMonth(PreviousMonth(t)) \cup DaysOfMonth(t) \cup DaysOfMonth(FollowingMonth(t))

CoveredDays == {x \in Calendar(today) : ~DateLess(x, start_date) /\ DateLess(x, end_date_for_api)}

C9_Window ==
    /\ start_date # NoDate =>
          /\ start_date \in Calendar(today)
          /\ end_date_for_api \in Calendar(today)
          /\ IF today[3] = 1
             THEN CoveredDays = DaysOfMonth(PreviousMonth(today))
             ELSE CoveredDays = {<<today[1], today[2], d>> : d \in 1..(today[3] - 1)}
    /\ forecast_calls <= 1
    /\ forecast_calls = 1 => today[3] # 1
    /\ pc = "cost_build" => (forecast_calls = 1 <=> today[3] # 1)

C9_Witness ==
    /\ pc = "cost_build"
    /\ today = <<2024, 1, 1>>
    /\ start_date = <<2023, 12, 1>>
    /\ end_date_for_api = <<2024, 1, 1>>
    /\ forecast_calls = 0

(***************************************************************************)
(* C10: the summary of the recommendation workflow agrees with the detail  *)
(* records emitted: recommendation.totalCount is their number, the counts  *)
(* of recommendation.countByType add up to it, and                         *)
(* cost.totalEstimatedSavings is the sum of their                          *)
(* cost.estimatedMonthlySavings.                                           *)
(***************************************************************************)
RECURSIVE SumOver(_, _)
SumOver(f, S) ==
    IF S = {} THEN 0
    ELSE LET k == CHOOSE k \in S : TRUE IN f[k] + SumOver(f, S \ {k})

DetailSavings(evs) ==
    SumOver([i \in Details(evs) |-> evs[i].cost_estimatedMonthlySavings], Details(evs))

C10_SummaryMatchesDetails ==
    pc = "rec_exit" /\ events # <<>> =>
        LET summary == Last(events)
            by_type == summary.recommendation_countByType
        IN  /\ summary.recommendation_totalCount = Cardinality(Details(events))
            /\ SumOver(by_type, DOMAIN by_type) = Cardinality(Details(events))
            /\ summary.cost_totalEstimatedSavings = DetailSavings(events)

(***************************************************************************)
(* C11: in send_to_new_relic a backoff wait happens only before a next     *)
(* attempt.  Every wait is followed by another POST attempt, so at any     *)
(* moment outside the sleep itself there are no more waits than attempts   *)
(* begun after them; no wait lies between the third failed attempt and the *)
(* raise of line 343; no wait follows a successful attempt; a delivery     *)
(* performs at most two waits.                                             *)
(***************************************************************************)
\* the turns of range(3) begun so far: attempt is the 0-based index of the
\* current turn and reaches MaxAttempts when the loop is exhausted
AttemptsBegun == IF attempt < MaxAttempts THEN attempt + 1 ELSE MaxAttempts

C11_WaitOnlyBeforeNextAttempt ==
    send_calls > 0 =>
        /\ Len(waits) <= MaxAttempts - 1
        /\ Len(waits) <= AttemptsBegun - 1
        /\ pc = "send_raise" \/ send_status = "raised" =>
              Len(waits) = Cardinality(FailedAttempts) - 1
        /\ send_status = "returned" =>
              /\ Len(waits) = Cardinality(FailedAttempts)
              /\ Len(waits) = Len(attempt_log) - 1

====
